---- MODULE Spec2Model ----
(***************************************************************************)
(* tidy: removal passes over a LibCST tree (src/src/tidy/transformers.py)  *)
(* and the per-file driver process_file (src/src/tidy/main.py).            *)
(*                                                                         *)
(* A tree is a nest of records, one per LibCST node, with the field names  *)
(* LibCST gives them.  A visit is the bottom-up traversal of               *)
(* CSTNode.visit: children first, then the transformer's leave_<Class>     *)
(* method, whose result replaces the node.                                 *)
(***************************************************************************)
EXTENDS Integers, Sequences, FiniteSets, TLC

\* ------------------------------------------------------------------------
\* Bounds of the model
\* ------------------------------------------------------------------------
\* longest module body drawn over the core statement lines
MaxBody == 3
\* deepest nesting of compound statements in an input tree
MaxDepth == 2
\* how many times in a row a remover is applied to a tree
MaxVisits == 2

\* ------------------------------------------------------------------------
\* Nodes
\* ------------------------------------------------------------------------
None == [type |-> "None"]

Name(v) == [type |-> "Name", value |-> v]
Attribute(v, a) == [type |-> "Attribute", value |-> v, attr |-> Name(a)]
Call(f, as) == [type |-> "Call", func |-> f, args |-> as]
SimpleString(v) == [type |-> "SimpleString", value |-> v]
ConcatenatedString == [type |-> "ConcatenatedString"]
Integer(v) == [type |-> "Integer", value |-> v]

Expr(e) == [type |-> "Expr", value |-> e]
Assign(t, e) == [type |-> "Assign", target |-> Name(t), value |-> e]
AssertStmt(e, msg) == [type |-> "Assert", test |-> e, msg |-> msg]
Pass == [type |-> "Pass"]

Comment(text) == [type |-> "Comment", value |-> text]
EmptyLine(c) == [type |-> "EmptyLine", comment |-> c]
TrailingWhitespace(ws, c) ==
    [type |-> "TrailingWhitespace", whitespace |-> ws, comment |-> c]

SimpleStatementLine(ll, body, tw) ==
    [type |-> "SimpleStatementLine", leading_lines |-> ll, body |-> body,
     trailing_whitespace |-> tw]
IndentedBlock(hdr, body) ==
    [type |-> "IndentedBlock", header |-> hdr, body |-> body]
SimpleStatementSuite(body, tw) ==
    [type |-> "SimpleStatementSuite", body |-> body, trailing_whitespace |-> tw]
Compound(kind, ll, suite) ==
    [type |-> kind, leading_lines |-> ll, body |-> suite]
Module(hdr, body) == [type |-> "Module", header |-> hdr, body |-> body]

\* the dataclass fields of cst.Module this model carries; an attribute that
\* is not a field raises AttributeError when read
ModuleFields == {"header", "body"}

CompoundTypes == {"FunctionDef", "ClassDef", "If"}

\* ------------------------------------------------------------------------
\* Comment texts, as tuples of characters
\* ------------------------------------------------------------------------
TxtPlain == <<"#", " ", "k">>
TxtNoqa == <<"#", " ", "n", "o", "q", "a">>
TxtNoqaMid == <<"#", "x", " ", "n", "o", "q", "a", ":", "E">>
TxtType == <<"#", " ", "t", "y", "p", "e", ":", " ", "i">>
TxtTypeBare == <<"#", " ", "t", "y", "p", "e">>
TxtPragma == <<"#", " ", "p", "r", "a", "g", "m", "a">>
TxtShebang == <<"#", "!", "/", "s", "h">>
TxtCoding == <<"#", " ", "c", "o", "d", "i", "n", "g">>
TxtCodingUpper == <<"#", " ", "C", "O", "D", "I", "N", "G">>
TxtVim == <<"#", " ", "v", "i", "m", ":">>

StartsWith(text, prefix) ==
    /\ Len(prefix) <= Len(text)
    /\ SubSeq(text, 1, Len(prefix)) = prefix

\* Python's `sub in text`
Contains(text, sub) ==
    \E i \in 1..(Len(text) - Len(sub) + 1) :
        SubSeq(text, i, i + Len(sub) - 1) = sub

LowerChar(c) ==
    CASE c = "C" -> "c" [] c = "O" -> "o" [] c = "D" -> "d"
      [] c = "I" -> "i" [] c = "N" -> "n" [] c = "G" -> "g"
      [] OTHER -> c

Lower(text) == [i \in 1..Len(text) |-> LowerChar(text[i])]

RECURSIVE LStrip(_)
LStrip(text) ==
    IF text # <<>> /\ Head(text) = " " THEN LStrip(Tail(text)) ELSE text

RECURSIVE RStrip(_)
RStrip(text) ==
    IF text # <<>> /\ text[Len(text)] = " "
    THEN RStrip(SubSeq(text, 1, Len(text) - 1))
    ELSE text

Strip(text) == RStrip(LStrip(text))

KwNoqa == <<"n", "o", "q", "a">>
KwType == <<"t", "y", "p", "e", ":">>
KwPragma == <<"p", "r", "a", "g", "m", "a">>
PreservedKeywords == {KwNoqa, KwType, KwPragma}

PrefixShebang == <<"#", "!">>
KwCoding == <<"c", "o", "d", "i", "n", "g">>
PrefixCodingDecl == <<"#", " ", "-", "*", "-", " ", "c", "o", "d", "i", "n", "g", ":">>
PrefixVim == <<"#", " ", "v", "i", "m", ":">>

\* ------------------------------------------------------------------------
\* Removers (transformers.py).  A remover object is a record holding its
\* class and its attributes; a leave method returns the node that replaces
\* the visited one (or the removal sentinel), the increment of
\* removed_count, and whether it raised.
\* ------------------------------------------------------------------------
REMOVE == [type |-> "RemovalSentinel"]

Kept(node) == [node |-> node, inc |-> 0, raised |-> FALSE]
Changed(node) == [node |-> node, inc |-> 1, raised |-> FALSE]
Raised(node, n) == [node |-> node, inc |-> n, raised |-> TRUE]

DefaultLogLevels ==
    {"trace", "debug", "info", "warning", "success", "error", "exception",
     "critical"}

LogBases == {"log", "logger", "logging"}

Remover(class, remove_all, log_levels) ==
    [class |-> class, removed_count |-> 0, remove_all |-> remove_all,
     log_levels |-> log_levels]

PrintRemover == Remover("PrintRemover", FALSE, {})
InlineCommentRemover(remove_all) == Remover("InlineCommentRemover", remove_all, {})
LeadingCommentRemover == Remover("LeadingCommentRemover", FALSE, {})
HeaderCommentRemover == Remover("HeaderCommentRemover", FALSE, {})
DocstringRemover == Remover("DocstringRemover", FALSE, {})
AssertRemover == Remover("AssertRemover", FALSE, {})
\* a Python set argument; None stands for an argument that was not supplied
SetOf(S) == [type |-> "set", value |-> S]

\* Python truthiness of an optional set: None and the empty set are falsy
Truthy(x) == x.type # "None" /\ x.value # {}

\* self.log_levels = log_levels or {...}
LogRemover(log_levels) ==
    Remover("LogRemover", FALSE,
            IF Truthy(log_levels) THEN log_levels.value ELSE DefaultLogLevels)

NoRemover == Remover("none", FALSE, {})

\* m.matches(node, m.Call(func=m.Name(v)))
MatchesCallOfName(node, v) ==
    /\ node.type = "Call"
    /\ node.func.type = "Name"
    /\ node.func.value = v

\* m.matches(node, m.Call(func=m.Attribute()))
MatchesCallOfAttribute(node) ==
    /\ node.type = "Call"
    /\ node.func.type = "Attribute"

\* leave_Expr matching any callee spelled print, a method print included
PrintRemover_leave_Expr_AnyCallee(original_node, updated_node) ==
    IF \/ MatchesCallOfName(updated_node.value, "print")
       \/ /\ MatchesCallOfAttribute(updated_node.value)
          /\ updated_node.value.func.attr.value = "print"
    THEN Changed(REMOVE)
    ELSE Kept(updated_node)

PrintRemover_leave_Expr(original_node, updated_node) ==
    IF /\ MatchesCallOfName(updated_node.value, "print")
       /\ ~MatchesCallOfAttribute(updated_node.value)
    THEN Changed(REMOVE)
    ELSE Kept(updated_node)

\* leave_TrailingWhitespace preserving on "type" without its colon
InlineCommentRemover_leave_TrailingWhitespace_BareType(self, original_node, updated_node) ==
    IF updated_node.comment # None
    THEN LET comment_text == updated_node.comment.value IN
         IF /\ ~self.remove_all
            /\ \E keyword \in {KwNoqa, <<"t", "y", "p", "e">>, KwPragma} :
                 Contains(comment_text, keyword)
         THEN Kept(updated_node)
         ELSE Changed([updated_node EXCEPT !.comment = None])
    ELSE Kept(updated_node)

InlineCommentRemover_leave_TrailingWhitespace(self, original_node, updated_node) ==
    IF updated_node.comment # None
    THEN LET comment_text == updated_node.comment.value IN
         IF /\ ~self.remove_all
            /\ \E keyword \in PreservedKeywords : Contains(comment_text, keyword)
         THEN Kept(updated_node)
         ELSE Changed([updated_node EXCEPT !.comment = None])
    ELSE Kept(updated_node)

IsCommentLine(line) == line.type = "EmptyLine" /\ line.comment # None

LeadingCommentRemover_leave_Module(original_node, updated_node) ==
    IF "leading_lines" \notin ModuleFields
    THEN Raised(updated_node, 0)
    ELSE IF updated_node.leading_lines # <<>>
    THEN LET new_lines == SelectSeq(updated_node.leading_lines,
                                    LAMBDA line : ~IsCommentLine(line))
         IN [node |-> [updated_node EXCEPT !.leading_lines = new_lines],
             inc |-> Len(updated_node.leading_lines) - Len(new_lines),
             raised |-> FALSE]
    ELSE Kept(updated_node)

IsStringLine(stmt) ==
    /\ Len(stmt.body) = 1
    /\ stmt.body[1].type = "Expr"
    /\ stmt.body[1].value.type = "SimpleString"

LeadingCommentRemover_leave_SimpleStatementLine(original_node, updated_node) ==
    IF IsStringLine(updated_node)
    THEN Kept(updated_node)
    ELSE IF /\ original_node.leading_lines # <<>>
            /\ \E i \in 1..Len(original_node.leading_lines) :
                   IsCommentLine(original_node.leading_lines[i])
    THEN Changed(REMOVE)
    ELSE Kept(updated_node)

IsHeaderComment(line) ==
    /\ IsCommentLine(line)
    /\ LET comment_text == Strip(line.comment.value) IN
         \/ StartsWith(comment_text, PrefixShebang)
         \/ Contains(Lower(comment_text), KwCoding)
         \/ StartsWith(comment_text, PrefixCodingDecl)
         \/ StartsWith(comment_text, PrefixVim)

HeaderCommentRemover_leave_Module(original_node, updated_node) ==
    IF "leading_lines" \notin ModuleFields
    THEN Raised(updated_node, 0)
    ELSE IF updated_node.leading_lines # <<>>
    THEN LET new_lines == SelectSeq(updated_node.leading_lines,
                                    LAMBDA line : ~IsHeaderComment(line))
         IN [node |-> [updated_node EXCEPT !.leading_lines = new_lines],
             inc |-> Len(updated_node.leading_lines) - Len(new_lines),
             raised |-> FALSE]
    ELSE Kept(updated_node)

\* body[0] is a SimpleStatementLine holding one Expr whose value is a
\* SimpleString
IsDocstringAtHead(body) ==
    /\ body # <<>>
    /\ body[1].type = "SimpleStatementLine"
    /\ Len(body[1].body) = 1
    /\ body[1].body[1].type = "Expr"
    /\ body[1].body[1].value.type = "SimpleString"

DocstringRemover_leave_Module(original_node, updated_node) ==
    IF IsDocstringAtHead(updated_node.body)
    THEN Changed([updated_node EXCEPT !.body = Tail(updated_node.body)])
    ELSE Kept(updated_node)

DocstringRemover_leave_ClassDef(original_node, updated_node) ==
    IF IsDocstringAtHead(updated_node.body.body)
    THEN Changed([updated_node EXCEPT !.body.body = Tail(updated_node.body.body)])
    ELSE Kept(updated_node)

DocstringRemover_leave_FunctionDef(original_node, updated_node) ==
    IF IsDocstringAtHead(updated_node.body.body)
    THEN Changed([updated_node EXCEPT !.body.body = Tail(updated_node.body.body)])
    ELSE Kept(updated_node)

\* leave_SimpleStatementLine without the test of the line's length
AssertRemover_leave_SimpleStatementLine_AnyLength(original_node, updated_node) ==
    IF \E i \in 1..Len(updated_node.body) : updated_node.body[i].type = "Assert"
    THEN Changed(REMOVE)
    ELSE Kept(updated_node)

AssertRemover_leave_SimpleStatementLine(original_node, updated_node) ==
    IF /\ Len(updated_node.body) = 1
       /\ updated_node.body[1].type = "Assert"
    THEN Changed(REMOVE)
    ELSE Kept(updated_node)

\* leave_Expr without the check of the base name
LogRemover_leave_Expr_AnyBase(self, original_node, updated_node) ==
    IF /\ MatchesCallOfAttribute(updated_node.value)
       /\ updated_node.value.func.attr.type = "Name"
       /\ updated_node.value.func.attr.value \in self.log_levels
       /\ updated_node.value.func.value.type = "Name"
    THEN Changed(REMOVE)
    ELSE Kept(updated_node)

LogRemover_leave_Expr(self, original_node, updated_node) ==
    IF /\ MatchesCallOfAttribute(updated_node.value)
       /\ updated_node.value.func.type = "Attribute"
       /\ LET attr == updated_node.value.func IN
            /\ attr.attr.type = "Name"
            /\ attr.attr.value \in self.log_levels
            /\ attr.value.type = "Name"
            /\ attr.value.value \in LogBases
    THEN Changed(REMOVE)
    ELSE Kept(updated_node)

\* ------------------------------------------------------------------------
\* The traversal: module.visit(transformer)
\* ------------------------------------------------------------------------
\* CSTTransformer.on_leave: call leave_<Class> when the transformer has one
on_leave(self, original_node, updated_node) ==
    LET c == self.class
        t == original_node.type
    IN CASE c = "PrintRemover" /\ t = "Expr" ->
              PrintRemover_leave_Expr(original_node, updated_node)
         [] c = "InlineCommentRemover" /\ t = "TrailingWhitespace" ->
              InlineCommentRemover_leave_TrailingWhitespace(self, original_node, updated_node)
         [] c = "LeadingCommentRemover" /\ t = "Module" ->
              LeadingCommentRemover_leave_Module(original_node, updated_node)
         [] c = "LeadingCommentRemover" /\ t = "SimpleStatementLine" ->
              LeadingCommentRemover_leave_SimpleStatementLine(original_node, updated_node)
         [] c = "HeaderCommentRemover" /\ t = "Module" ->
              HeaderCommentRemover_leave_Module(original_node, updated_node)
         [] c = "DocstringRemover" /\ t = "Module" ->
              DocstringRemover_leave_Module(original_node, updated_node)
         [] c = "DocstringRemover" /\ t = "ClassDef" ->
              DocstringRemover_leave_ClassDef(original_node, updated_node)
         [] c = "DocstringRemover" /\ t = "FunctionDef" ->
              DocstringRemover_leave_FunctionDef(original_node, updated_node)
         [] c = "AssertRemover" /\ t = "SimpleStatementLine" ->
              AssertRemover_leave_SimpleStatementLine(original_node, updated_node)
         [] c = "LogRemover" /\ t = "Expr" ->
              LogRemover_leave_Expr(self, original_node, updated_node)
         [] OTHER -> Kept(updated_node)

\* SimpleStatementLine._is_removable: a line whose body became empty
IsRemovable(node) == node.type = "SimpleStatementLine" /\ node.body = <<>>

\* a small statement has no child any remover hooks
VisitSmall(self, small) == on_leave(self, small, small)

\* a visited child `h` put before the visited rest `r` of its sequence,
\* unless it was removed
Cons(dropped, h, r) ==
    [nodes |-> IF dropped THEN r.nodes ELSE <<h.node>> \o r.nodes,
     inc |-> h.inc + r.inc]

\* visit_sequence over the small statements of a line: removed ones are dropped
RECURSIVE VisitSmalls(_, _)
VisitSmallsFrom(h, r) == Cons(h.node = REMOVE, h, r)
VisitSmalls(self, smalls) ==
    IF smalls = <<>> THEN [nodes |-> <<>>, inc |-> 0]
    ELSE VisitSmallsFrom(VisitSmall(self, Head(smalls)), VisitSmalls(self, Tail(smalls)))

VisitTrailingWhitespace(self, tw) == on_leave(self, tw, tw)

RECURSIVE VisitStatement(_, _)
RECURSIVE VisitBody(_, _)
RECURSIVE VisitSuite(_, _)

\* visit_body_sequence: a removed child is dropped, and so is a child that
\* was not removable and came back removable (a line emptied of its
\* statements), together with its leading_lines and trailing_whitespace
VisitBodyFrom(child, h, r) ==
    Cons(h.node = REMOVE \/ (~IsRemovable(child) /\ IsRemovable(h.node)), h, r)
VisitBody(self, stmts) ==
    IF stmts = <<>> THEN [nodes |-> <<>>, inc |-> 0]
    ELSE VisitBodyFrom(Head(stmts), VisitStatement(self, Head(stmts)),
                       VisitBody(self, Tail(stmts)))

\* the node with its visited children, and the counts they added
IndentedBlockWith(suite, hd, b) ==
    [node |-> [suite EXCEPT !.header = hd.node, !.body = b.nodes],
     inc |-> hd.inc + b.inc]
SimpleStatementWith(stmt, b, tw) ==
    [node |-> [stmt EXCEPT !.body = b.nodes, !.trailing_whitespace = tw.node],
     inc |-> b.inc + tw.inc]
CompoundWith(stmt, s) == [node |-> [stmt EXCEPT !.body = s.node], inc |-> s.inc]

VisitSuite(self, suite) ==
    IF suite.type = "IndentedBlock"
    THEN IndentedBlockWith(suite, VisitTrailingWhitespace(self, suite.header),
                           VisitBody(self, suite.body))
    ELSE SimpleStatementWith(suite, VisitSmalls(self, suite.body),
                             VisitTrailingWhitespace(self, suite.trailing_whitespace))

\* the result of leave_<Class>, with the counts of the children added
Left(children, l) ==
    [node |-> l.node, inc |-> children.inc + l.inc, raised |-> l.raised]
Leave(self, original_node, children) ==
    Left(children, on_leave(self, original_node, children.node))

VisitStatement(self, stmt) ==
    IF stmt.type = "SimpleStatementLine"
    THEN Leave(self, stmt,
               SimpleStatementWith(stmt, VisitSmalls(self, stmt.body),
                                   VisitTrailingWhitespace(self, stmt.trailing_whitespace)))
    ELSE Leave(self, stmt, CompoundWith(stmt, VisitSuite(self, stmt.body)))

ModuleWith(module, b) == [node |-> [module EXCEPT !.body = b.nodes], inc |-> b.inc]

Returned(self, res) ==
    [node |-> res.node, removed_count |-> self.removed_count + res.inc,
     raised |-> res.raised]

\* module.visit(self): the new tree, self.removed_count afterwards, and
\* whether a leave method raised (then `node` is the tree the traversal had
\* built when it was abandoned, which the caller never receives)
Visit(self, module) ==
    Returned(self, Leave(self, module, ModuleWith(module, VisitBody(self, module.body))))

\* ------------------------------------------------------------------------
\* Input trees
\* ------------------------------------------------------------------------
NoTrail == TrailingWhitespace("", None)
Trail(text) == TrailingWhitespace("  ", Comment(text))
Blank == EmptyLine(None)
CommentLine(text) == EmptyLine(Comment(text))
Line(small) == SimpleStatementLine(<<>>, <<small>>, NoTrail)

StrArg == <<SimpleString("x")>>
PrintCall == Call(Name("print"), StrArg)
LogCall(base, level) == Call(Attribute(Name(base), level), StrArg)

Expressions ==
    {PrintCall,
     Call(Attribute(Name("obj"), "print"), StrArg),
     Call(Name("foo"), <<PrintCall>>),
     Call(Attribute(PrintCall, "strip"), <<>>),
     Call(Name("pprint"), StrArg),
     Name("print"),
     Call(Attribute(LogCall("logger", "debug"), "strip"), <<>>),
     Call(Attribute(Attribute(Name("self"), "logger"), "info"), StrArg),
     Call(Name("info"), StrArg),
     SimpleString("doc"),
     ConcatenatedString,
     Integer("1")}
    \cup {LogCall(base, level) :
            base \in {"log", "logger", "logging", "custom_logger"},
            level \in {"debug", "info", "error", "strip"}}

SmallStatements ==
    {Expr(e) : e \in Expressions}
    \cup {Assign("x", e) : e \in {PrintCall, LogCall("logger", "info"),
                                   LogCall("logger", "debug"), Integer("1"),
                                   SimpleString("doc")}}
    \cup {AssertStmt(Name("x"), None), AssertStmt(Name("x"), SimpleString("m")), Pass}

\* the lines block and module bodies are built over
X == Line(Assign("x", Integer("1")))
Doc == Line(Expr(SimpleString("doc")))
PrintC == SimpleStatementLine(<<CommentLine(TxtPlain)>>, <<Expr(PrintCall)>>, Trail(TxtPlain))
AssertC == SimpleStatementLine(<<Blank, CommentLine(TxtVim)>>,
                               <<AssertStmt(Name("x"), None)>>, NoTrail)
LogC == SimpleStatementLine(<<CommentLine(TxtPlain)>>,
                            <<Expr(LogCall("logger", "info"))>>, Trail(TxtNoqa))
CoreLines == {X, Doc, PrintC, AssertC, LogC}

InlineTexts == {TxtPlain, TxtNoqa, TxtNoqaMid, TxtType, TxtTypeBare, TxtPragma}
HeaderTexts == {TxtPlain, TxtShebang, TxtCoding, TxtCodingUpper, TxtVim}

KeySmalls ==
    {Expr(PrintCall), Expr(LogCall("logger", "info")), AssertStmt(Name("x"), None),
     Assign("x", Integer("1")), Expr(SimpleString("doc"))}

LeadingVariants ==
    {<<>>, <<Blank>>, <<CommentLine(TxtPlain)>>,
     <<CommentLine(TxtPlain), CommentLine(TxtVim)>>,
     <<Blank, CommentLine(TxtPlain)>>}

TriviaLines ==
    {SimpleStatementLine(ll, <<s>>, tw) :
        ll \in LeadingVariants, s \in KeySmalls,
        tw \in {NoTrail, Trail(TxtPlain), Trail(TxtNoqa)}}
    \cup {SimpleStatementLine(<<>>, <<Assign("x", Integer("1"))>>, Trail(t)) :
            t \in InlineTexts}

\* lines holding two small statements, `a; b`
PairLines ==
    {SimpleStatementLine(<<>>, <<a, b>>, NoTrail) : a, b \in KeySmalls}

SeqsUpTo(S, n) == UNION {[1..k -> S] : k \in 0..n}

BlockBodies ==
    {<<a>> : a \in CoreLines} \cup {<<a, b>> : a \in {Doc, X}, b \in CoreLines}

PlainSuites ==
    {IndentedBlock(NoTrail, b) : b \in BlockBodies}
    \cup {IndentedBlock(Trail(TxtPlain), <<X>>)}
    \cup {SimpleStatementSuite(<<s>>, NoTrail) :
            s \in {Expr(SimpleString("doc")), Expr(PrintCall), Pass,
                   AssertStmt(Name("x"), None)}}

RECURSIVE Compounds(_)
Compounds(d) ==
    LET suites ==
          IF d <= 1 THEN PlainSuites
          ELSE PlainSuites
               \cup {IndentedBlock(NoTrail, pre \o <<c>>) :
                       pre \in {<<>>, <<Doc>>}, c \in Compounds(d - 1)}
    IN {Compound(kind, <<>>, s) : kind \in CompoundTypes, s \in suites}

\* statement lists as written in a file, before the parser attaches the
\* first statement's leading lines to the module
StatementLists ==
    SeqsUpTo(CoreLines, MaxBody)
    \cup {ctx : ctx \in UNION {{<<Line(s)>>, <<x, Line(s)>>, <<Line(s), x>>} :
                                 s \in SmallStatements, x \in CoreLines}}
    \cup UNION {{<<l>>, <<X, l>>, <<X, l, X>>} : l \in TriviaLines}
    \cup UNION {{<<l>>, <<X, l>>} : l \in PairLines}
    \cup {<<SimpleStatementLine(h, <<Assign("x", Integer("1"))>>, NoTrail)>> \o post :
            h \in SeqsUpTo({CommentLine(t) : t \in HeaderTexts} \cup {Blank}, 2),
            post \in {<<>>, <<SimpleStatementLine(<<CommentLine(TxtVim)>>,
                                                   <<Assign("x", Integer("1"))>>,
                                                   NoTrail)>>}}
    \cup {pre \o <<[c EXCEPT !.leading_lines = ll]>> :
            pre \in {<<>>, <<X>>},
            ll \in {<<>>, <<CommentLine(TxtPlain)>>},
            c \in Compounds(MaxDepth)}

\* convert_file_input of the parser: the leading lines of the first
\* statement become the module's header
ParsedModule(stmts) ==
    IF stmts = <<>> THEN Module(<<>>, <<>>)
    ELSE Module(Head(stmts).leading_lines,
                <<[Head(stmts) EXCEPT !.leading_lines = <<>>]>> \o Tail(stmts))

InputTrees == {ParsedModule(stmts) : stmts \in StatementLists}

\* the level sets a caller configures LogRemover with: none, or a set that
\* is not empty (main returns 1 before any file is touched when no level
\* flag is given)
LevelSets ==
    {None, SetOf({"debug"}), SetOf({"info", "error"}), SetOf(DefaultLogLevels)}

\* ------------------------------------------------------------------------
\* module.code: the text of a tree, one string per line
\* ------------------------------------------------------------------------
RECURSIVE Join(_)
Join(chars) == IF chars = <<>> THEN "" ELSE Head(chars) \o Join(Tail(chars))

RECURSIVE ExprCode(_)
RECURSIVE ArgsCode(_)
ArgsCode(args) ==
    IF args = <<>> THEN ""
    ELSE IF Len(args) = 1 THEN ExprCode(args[1])
    ELSE ExprCode(Head(args)) \o ", " \o ArgsCode(Tail(args))

ExprCode(e) ==
    CASE e.type = "Name" -> e.value
      [] e.type = "Attribute" -> ExprCode(e.value) \o "." \o e.attr.value
      [] e.type = "Call" -> ExprCode(e.func) \o "(" \o ArgsCode(e.args) \o ")"
      [] e.type = "SimpleString" -> "'" \o e.value \o "'"
      [] e.type = "ConcatenatedString" -> "'a' 'b'"
      [] e.type = "Integer" -> e.value

SmallCode(small) ==
    CASE small.type = "Expr" -> ExprCode(small.value)
      [] small.type = "Assign" -> small.target.value \o " = " \o ExprCode(small.value)
      [] small.type = "Assert" ->
           "assert " \o ExprCode(small.test)
           \o (IF small.msg = None THEN "" ELSE ", " \o ExprCode(small.msg))
      [] small.type = "Pass" -> "pass"

\* _BaseSimpleStatement._codegen_impl: an empty body is written as `pass`
RECURSIVE SmallsCode(_)
SmallsCode(smalls) ==
    IF smalls = <<>> THEN "pass"
    ELSE IF Len(smalls) = 1 THEN SmallCode(smalls[1])
    ELSE SmallCode(Head(smalls)) \o "; " \o SmallsCode(Tail(smalls))

TrailingCode(tw) ==
    IF tw.comment = None THEN tw.whitespace
    ELSE tw.whitespace \o Join(tw.comment.value)

EmptyLineCode(indent, line) ==
    IF line.comment = None THEN "" ELSE indent \o Join(line.comment.value)

LeadingCode(indent, lines) == [i \in 1..Len(lines) |-> EmptyLineCode(indent, lines[i])]

CompoundHead(kind) ==
    CASE kind = "FunctionDef" -> "def f():"
      [] kind = "ClassDef" -> "class C:"
      [] kind = "If" -> "if x:"

RECURSIVE StatementCode(_, _)
RECURSIVE BodyCode(_, _)

BodyCode(indent, stmts) ==
    IF stmts = <<>> THEN <<>>
    ELSE StatementCode(indent, Head(stmts)) \o BodyCode(indent, Tail(stmts))

\* IndentedBlock._codegen_impl: an empty block is written as `pass`
StatementCode(indent, stmt) ==
    IF stmt.type = "SimpleStatementLine"
    THEN LeadingCode(indent, stmt.leading_lines)
         \o <<indent \o SmallsCode(stmt.body) \o TrailingCode(stmt.trailing_whitespace)>>
    ELSE IF stmt.body.type = "IndentedBlock"
    THEN LeadingCode(indent, stmt.leading_lines)
         \o <<indent \o CompoundHead(stmt.type) \o TrailingCode(stmt.body.header)>>
         \o (IF stmt.body.body = <<>> THEN <<indent \o "    " \o "pass">>
             ELSE BodyCode(indent \o "    ", stmt.body.body))
    ELSE LeadingCode(indent, stmt.leading_lines)
         \o <<indent \o CompoundHead(stmt.type) \o " " \o SmallsCode(stmt.body.body)
              \o TrailingCode(stmt.body.trailing_whitespace)>>

Code(tree) == LeadingCode("", tree.header) \o BodyCode("", tree.body)

\* ------------------------------------------------------------------------
\* main: what it passes to process_file
\* ------------------------------------------------------------------------
CommentFlags == {"inline", "leading", "header", "default", "all"}

\* main.py 190-204: with --all the other comment flags are dropped
comment_options_of(flags) ==
    IF "all" \in flags THEN {"all"} ELSE flags \ {"all"}

\* main.py 206-227
log_levels_of(flags) ==
    IF "all" \in flags THEN SetOf(DefaultLogLevels)
    ELSE IF flags # {} THEN SetOf(flags \ {"all"})
    ELSE None

Options(command, comment_options) ==
    [remove_prints |-> command = "prints",
     remove_comments |-> command = "comments",
     remove_docstrings |-> command = "docstrings",
     remove_asserts |-> command = "asserts",
     remove_logs |-> command = "logs",
     comment_options |-> comment_options]

Commands == {"comments", "prints", "docstrings", "asserts", "logs"}

LogFlagSets == {{"all"}, {"debug"}, {"info", "error"}, {"all", "debug"}}

\* the files process_file is run on
FileTrees ==
    {ParsedModule(stmts) :
       stmts \in SeqsUpTo(CoreLines, MaxBody - 1)
                 \cup {<<SimpleStatementLine(<<CommentLine(TxtShebang), CommentLine(TxtCoding)>>,
                                             <<Assign("x", Integer("1"))>>, Trail(TxtType))>>,
                       <<Compound("FunctionDef", <<>>, IndentedBlock(NoTrail, <<Doc, PrintC>>))>>,
                       <<Compound("ClassDef", <<>>, IndentedBlock(NoTrail, <<Doc>>))>>}}

\* a text the parser rejects
Malformed == <<"def (">>

ParserSyntaxError == [type |-> "ParserSyntaxError"]

\* cst.parse_module: the tree whose text is source_code
parse_module(source_code) ==
    IF \E t \in FileTrees : Code(t) = source_code
    THEN CHOOSE t \in FileTrees : Code(t) = source_code
    ELSE ParserSyntaxError

NoModule == Module(<<>>, <<>>)

ZeroCounts ==
    [prints_removed |-> 0, comments_removed |-> 0, docstrings_removed |-> 0,
     asserts_removed |-> 0, logs_removed |-> 0]

\* ------------------------------------------------------------------------
\* State
\* ------------------------------------------------------------------------
VARIABLES
    module,        \* the tree held by the caller
    visited,       \* the tree the last visit was applied to
    updated_node,  \* the tree the last visit built (returned, or abandoned)
    remover,       \* the remover object of the last visit
    raised,        \* whether an exception was raised
    visits,        \* visits made so far
    log_levels,    \* the level set the caller configured LogRemover with
    pc,            \* where process_file stands
    file,          \* the text of the file on disk
    source_code,   \* the text process_file read
    options,       \* the flags process_file was called with
    counts         \* the five removed counts of process_file

passVars == <<visited, updated_node, remover, visits>>
fileVars == <<pc, file, source_code, options, counts>>
vars == <<module, visited, updated_node, remover, raised, visits, log_levels,
          pc, file, source_code, options, counts>>

\* ------------------------------------------------------------------------
\* A remover applied to a tree, alone and again to its own output
\* ------------------------------------------------------------------------
InitPass ==
    /\ module \in InputTrees
    /\ visited = module
    /\ updated_node = module
    /\ remover = NoRemover
    /\ raised = FALSE
    /\ visits = 0
    /\ log_levels = None
    /\ pc = "visit"
    /\ file = <<>>
    /\ source_code = <<>>
    /\ options = Options("none", {})
    /\ counts = ZeroCounts

\* module = module.visit(r), for a fresh remover r of the class of the
\* previous visit (or of any class on the first visit)
VisitWith(r) ==
    /\ pc = "visit"
    /\ visits < MaxVisits
    /\ ~raised
    /\ remover.class \in {"none", r.class}
    /\ remover.class = r.class =>
          /\ remover.remove_all = r.remove_all
          /\ remover.log_levels = r.log_levels
    /\ LET res == Visit(r, module) IN
         /\ visited' = module
         /\ updated_node' = res.node
         /\ remover' = [r EXCEPT !.removed_count = res.removed_count]
         /\ raised' = res.raised
         /\ module' = IF res.raised THEN module ELSE res.node
    /\ visits' = visits + 1
    /\ UNCHANGED fileVars

VisitPrintRemover == VisitWith(PrintRemover) /\ UNCHANGED log_levels
VisitInlineCommentRemover ==
    /\ \E remove_all \in BOOLEAN : VisitWith(InlineCommentRemover(remove_all))
    /\ UNCHANGED log_levels
VisitLeadingCommentRemover == VisitWith(LeadingCommentRemover) /\ UNCHANGED log_levels
VisitHeaderCommentRemover == VisitWith(HeaderCommentRemover) /\ UNCHANGED log_levels
VisitDocstringRemover == VisitWith(DocstringRemover) /\ UNCHANGED log_levels
VisitAssertRemover == VisitWith(AssertRemover) /\ UNCHANGED log_levels
VisitLogRemover ==
    \E levels \in LevelSets :
        /\ visits > 0 => levels = log_levels
        /\ VisitWith(LogRemover(levels))
        /\ log_levels' = levels

NextPass ==
    \/ VisitPrintRemover
    \/ VisitInlineCommentRemover
    \/ VisitLeadingCommentRemover
    \/ VisitHeaderCommentRemover
    \/ VisitDocstringRemover
    \/ VisitAssertRemover
    \/ VisitLogRemover

SpecPass == InitPass /\ [][NextPass]_vars

\* ------------------------------------------------------------------------
\* process_file (main.py 37-123), called by main once per file
\* ------------------------------------------------------------------------
Init ==
    /\ \E command \in Commands :
         \/ /\ command = "comments"
            /\ \E flags \in (SUBSET CommentFlags) \ {{}} :
                 options = Options(command, comment_options_of(flags))
            /\ log_levels = None
         \/ /\ command = "logs"
            /\ options = Options(command, {})
            /\ \E flags \in LogFlagSets : log_levels = log_levels_of(flags)
         \/ /\ command \notin {"comments", "logs"}
            /\ options = Options(command, {})
            /\ log_levels = None
    /\ file \in {Code(t) : t \in FileTrees} \cup {Malformed}
    /\ pc = "start"
    /\ source_code = <<>>
    /\ counts = ZeroCounts
    /\ module = NoModule
    /\ raised = FALSE
    /\ visited = NoModule
    /\ updated_node = NoModule
    /\ remover = NoRemover
    /\ visits = 0

\* lines 51-54: read the file and parse it
ReadAndParse ==
    /\ pc = "start"
    /\ source_code' = file
    /\ LET parsed == parse_module(file) IN
         IF parsed = ParserSyntaxError
         THEN /\ raised' = TRUE
              /\ pc' = "except"
              /\ UNCHANGED module
         ELSE /\ module' = parsed
              /\ pc' = "prints"
              /\ UNCHANGED raised
    /\ UNCHANGED <<file, options, counts, log_levels, passVars>>

\* one guarded block of the chain: `if flag: module = module.visit(r);
\* count = r.removed_count`
Block(here, next, flag, r, field) ==
    /\ pc = here
    /\ IF flag
       THEN LET res == Visit(r, module) IN
              IF res.raised
              THEN /\ raised' = TRUE
                   /\ pc' = "except"
                   /\ UNCHANGED <<module, counts>>
              ELSE /\ module' = res.node
                   /\ counts' = [counts EXCEPT ![field] = res.removed_count]
                   /\ pc' = next
                   /\ UNCHANGED raised
       ELSE /\ pc' = next
            /\ UNCHANGED <<module, counts, raised>>
    /\ UNCHANGED <<file, source_code, options, log_levels, passVars>>

\* lines 56-59
RemovePrints ==
    Block("prints", "comments", options.remove_prints, PrintRemover, "prints_removed")

\* the removers of the comment block in the order they are run
CommentRemovers(comment_options) ==
    IF "all" \in comment_options
    THEN <<InlineCommentRemover(TRUE), LeadingCommentRemover, HeaderCommentRemover>>
    ELSE (IF "inline" \in comment_options THEN <<InlineCommentRemover(TRUE)>> ELSE <<>>)
         \o (IF "leading" \in comment_options THEN <<LeadingCommentRemover>> ELSE <<>>)
         \o (IF "header" \in comment_options THEN <<HeaderCommentRemover>> ELSE <<>>)
         \o (IF "default" \in comment_options THEN <<InlineCommentRemover(FALSE)>> ELSE <<>>)

\* module = module.visit(r); comments_removed += r.removed_count, for each
\* remover in turn, until one raises
RECURSIVE RunRemovers(_, _, _)
RunRemovers(removers, tree, comments_removed) ==
    IF removers = <<>>
    THEN [module |-> tree, comments_removed |-> comments_removed, raised |-> FALSE]
    ELSE LET res == Visit(Head(removers), tree) IN
         IF res.raised
         THEN [module |-> tree, comments_removed |-> comments_removed, raised |-> TRUE]
         ELSE RunRemovers(Tail(removers), res.node, comments_removed + res.removed_count)

\* lines 61-97
RemoveComments ==
    /\ pc = "comments"
    /\ IF options.remove_comments
       THEN LET res == RunRemovers(CommentRemovers(options.comment_options), module,
                                   counts.comments_removed)
            IN /\ module' = res.module
               /\ counts' = [counts EXCEPT !.comments_removed = res.comments_removed]
               /\ raised' = res.raised
               /\ pc' = IF res.raised THEN "except" ELSE "docstrings"
       ELSE /\ pc' = "docstrings"
            /\ UNCHANGED <<module, counts, raised>>
    /\ UNCHANGED <<file, source_code, options, log_levels, passVars>>

\* lines 99-102
RemoveDocstrings ==
    Block("docstrings", "asserts", options.remove_docstrings, DocstringRemover,
          "docstrings_removed")

\* lines 104-107
RemoveAsserts ==
    Block("asserts", "logs", options.remove_asserts, AssertRemover, "asserts_removed")

\* lines 109-112
RemoveLogs ==
    Block("logs", "writeback", options.remove_logs, LogRemover(log_levels), "logs_removed")

\* the write-back condition without the logs count
AnyRemoved_WithoutLogs ==
    \/ counts.prints_removed > 0
    \/ counts.comments_removed > 0
    \/ counts.docstrings_removed > 0
    \/ counts.asserts_removed > 0

AnyRemoved ==
    \/ counts.prints_removed > 0
    \/ counts.comments_removed > 0
    \/ counts.docstrings_removed > 0
    \/ counts.asserts_removed > 0
    \/ counts.logs_removed > 0

\* lines 115-116: open(file_path, "w") truncates the file
OpenForWriting ==
    /\ pc = "writeback"
    /\ IF AnyRemoved
       THEN /\ file' = <<>>
            /\ pc' = "write"
       ELSE /\ pc' = "return"
            /\ UNCHANGED file
    /\ UNCHANGED <<module, raised, source_code, options, counts, log_levels, passVars>>

\* line 117: f.write(module.code)
WriteCode ==
    /\ pc = "write"
    /\ file' = Code(module)
    /\ pc' = "return"
    /\ UNCHANGED <<module, raised, source_code, options, counts, log_levels, passVars>>

\* line 117: module.code or f.write raises; the with block closes the file
WriteRaises ==
    /\ pc = "write"
    /\ raised' = TRUE
    /\ pc' = "except"
    /\ UNCHANGED <<module, file, source_code, options, counts, log_levels, passVars>>

\* lines 119-121: except Exception: pass
Except ==
    /\ pc = "except"
    /\ pc' = "return"
    /\ UNCHANGED <<module, raised, file, source_code, options, counts, log_levels, passVars>>

\* line 123
Return ==
    /\ pc = "return"
    /\ pc' = "done"
    /\ UNCHANGED <<module, raised, file, source_code, options, counts, log_levels, passVars>>

Next ==
    \/ ReadAndParse
    \/ RemovePrints
    \/ RemoveComments
    \/ RemoveDocstrings
    \/ RemoveAsserts
    \/ RemoveLogs
    \/ OpenForWriting
    \/ WriteCode
    \/ WriteRaises
    \/ Except
    \/ Return

Spec == Init /\ [][Next]_vars

\* ------------------------------------------------------------------------
\* Views of a tree used to state the properties
\* ------------------------------------------------------------------------
RECURSIVE BodySmalls(_)
RECURSIVE BodyLeading(_)
RECURSIVE BodyTrailing(_)

\* the small statements of a body, in document order
StmtSmalls(stmt) ==
    IF stmt.type = "SimpleStatementLine" THEN stmt.body
    ELSE IF stmt.body.type = "IndentedBlock" THEN BodySmalls(stmt.body.body)
    ELSE stmt.body.body

BodySmalls(stmts) ==
    IF stmts = <<>> THEN <<>>
    ELSE StmtSmalls(Head(stmts)) \o BodySmalls(Tail(stmts))

\* the EmptyLine entries of a body, in document order
StmtLeading(stmt) ==
    IF stmt.type = "SimpleStatementLine" THEN stmt.leading_lines
    ELSE IF stmt.body.type = "IndentedBlock"
    THEN stmt.leading_lines \o BodyLeading(stmt.body.body)
    ELSE stmt.leading_lines

BodyLeading(stmts) ==
    IF stmts = <<>> THEN <<>>
    ELSE StmtLeading(Head(stmts)) \o BodyLeading(Tail(stmts))

\* the TrailingWhitespace nodes of a body, in document order
StmtTrailing(stmt) ==
    IF stmt.type = "SimpleStatementLine" THEN <<stmt.trailing_whitespace>>
    ELSE IF stmt.body.type = "IndentedBlock"
    THEN <<stmt.body.header>> \o BodyTrailing(stmt.body.body)
    ELSE <<stmt.body.trailing_whitespace>>

BodyTrailing(stmts) ==
    IF stmts = <<>> THEN <<>>
    ELSE StmtTrailing(Head(stmts)) \o BodyTrailing(Tail(stmts))

AllSmalls(tree) == BodySmalls(tree.body)
AllLeading(tree) == tree.header \o BodyLeading(tree.body)
AllTrailing(tree) == BodyTrailing(tree.body)

\* the standalone comment lines of a tree, in document order
CommentLines(tree) == SelectSeq(AllLeading(tree), LAMBDA l : l.comment # None)

Count(seq, P(_)) == Len(SelectSeq(seq, P))

LastWas(class) == visits > 0 /\ remover.class = class

\* ------------------------------------------------------------------------
\* Properties of the passes (checked under SpecPass)
\* ------------------------------------------------------------------------

\* C1: when the print, assert or log pass removes a statement, the
\* standalone comment lines above it survive: the comment lines of the
\* output are those of the input, in the same order.
C1_CommentsSurviveRemoval ==
    (/\ remover.class \in {"PrintRemover", "AssertRemover", "LogRemover"}
     /\ visits > 0)
    => /\ ~raised
       /\ CommentLines(module) = CommentLines(visited)

\* C2: the tree the leading-comment pass builds keeps every code statement
\* of its input, in order, and every blank line without a comment; it
\* drops comment lines only.
C2_LeadingKeepsStatements ==
    LastWas("LeadingCommentRemover")
    => /\ AllSmalls(updated_node) = AllSmalls(visited)
       /\ SelectSeq(AllLeading(updated_node), LAMBDA l : l.comment = None)
            = SelectSeq(AllLeading(visited), LAMBDA l : l.comment = None)

\* C3: the leading-comment pass returns a tree in which no EmptyLine carries
\* a comment, and its removed_count is the number of comment-carrying
\* EmptyLine entries of the input.
C3_NoCommentLineRemains ==
    (LastWas("LeadingCommentRemover") /\ CommentLines(visited) # <<>>)
    => /\ ~raised
       /\ CommentLines(module) = <<>>
       /\ remover.removed_count = Len(CommentLines(visited))

\* C4: every pass is idempotent: applied to its own output it returns that
\* output unchanged and reports a removed_count of 0.
C4_Idempotent ==
    visits >= 2
    => /\ ~raised
       /\ module = visited
       /\ remover.removed_count = 0

\* an expression statement that calls the bare name print
C6_IsBarePrint(small) ==
    /\ small.type = "Expr"
    /\ small.value.type = "Call"
    /\ small.value.func.type = "Name"
    /\ small.value.func.value = "print"

\* C6: the print pass removes exactly the expression statements whose
\* expression is a Call of the bare Name print; removed_count is the number
\* of statements removed, and a tree without a match comes back unchanged
\* with count 0.
C6_PrintPass ==
    LastWas("PrintRemover")
    => /\ ~raised
       /\ AllSmalls(module)
            = SelectSeq(AllSmalls(visited), LAMBDA s : ~C6_IsBarePrint(s))
       /\ remover.removed_count = Count(AllSmalls(visited), C6_IsBarePrint)
       /\ remover.removed_count = 0 => module = visited

\* C6 witness: a print statement was removed while obj.print(..), an
\* assigned print call and a nested print call stayed
C6_Witness ==
    /\ LastWas("PrintRemover")
    /\ remover.removed_count >= 1
    /\ \E i \in 1..Len(AllSmalls(module)) :
         AllSmalls(module)[i]
           \in {Expr(Call(Attribute(Name("obj"), "print"), StrArg)),
                Assign("x", PrintCall),
                Expr(Call(Name("foo"), <<PrintCall>>))}

C7_AllEight ==
    {"trace", "debug", "info", "warning", "success", "error", "exception",
     "critical"}

\* the level set in force: the configured one, all eight when none is given
C7_Levels == IF log_levels.type = "None" THEN C7_AllEight ELSE log_levels.value

\* a standalone expression statement base.level(..) with base one of log,
\* logger, logging and level in the level set in force
C7_IsLogStatement(small) ==
    /\ small.type = "Expr"
    /\ small.value.type = "Call"
    /\ small.value.func.type = "Attribute"
    /\ small.value.func.value.type = "Name"
    /\ small.value.func.value.value \in {"log", "logger", "logging"}
    /\ small.value.func.attr.value \in C7_Levels

\* C7: the log pass removes exactly the standalone expression statements
\* base.level(..) with base in {log, logger, logging} and level in the
\* configured set; removed_count is the number of statements removed.
C7_LogPass ==
    LastWas("LogRemover")
    => /\ ~raised
       /\ AllSmalls(module)
            = SelectSeq(AllSmalls(visited), LAMBDA s : ~C7_IsLogStatement(s))
       /\ remover.removed_count = Count(AllSmalls(visited), C7_IsLogStatement)

\* C7 witness: with only debug configured a logger.debug statement was
\* removed and a call of another level or base stayed
C7_Witness ==
    /\ LastWas("LogRemover")
    /\ log_levels = SetOf({"debug"})
    /\ remover.removed_count >= 1
    /\ \E i \in 1..Len(AllSmalls(module)) :
         AllSmalls(module)[i] \in {Expr(LogCall("logger", "info")),
                                   Expr(LogCall("custom_logger", "debug"))}

C8_HasMarker(text) ==
    \/ Contains(text, <<"n", "o", "q", "a">>)
    \/ Contains(text, <<"t", "y", "p", "e", ":">>)
    \/ Contains(text, <<"p", "r", "a", "g", "m", "a">>)

C8_Removed(tw) ==
    /\ tw.comment # None
    /\ remover.remove_all \/ ~C8_HasMarker(tw.comment.value)

\* C8: in default mode an inline comment is removed iff its text contains
\* none of noqa, type:, pragma; in all mode every inline comment is
\* removed; the whitespace before the comment and the code are kept, and
\* removed_count is the number of comments removed.
C8_InlinePass ==
    LastWas("InlineCommentRemover")
    => /\ ~raised
       /\ AllTrailing(module)
            = [i \in 1..Len(AllTrailing(visited)) |->
                 IF C8_Removed(AllTrailing(visited)[i])
                 THEN TrailingWhitespace(AllTrailing(visited)[i].whitespace, None)
                 ELSE AllTrailing(visited)[i]]
       /\ AllSmalls(module) = AllSmalls(visited)
       /\ AllLeading(module) = AllLeading(visited)
       /\ remover.removed_count = Count(AllTrailing(visited), C8_Removed)

\* C8 witness: a default-mode pass removed one inline comment and kept
\* another that carries a marker
C8_Witness ==
    /\ LastWas("InlineCommentRemover")
    /\ ~remover.remove_all
    /\ remover.removed_count >= 1
    /\ \E i \in 1..Len(AllTrailing(module)) : AllTrailing(module)[i].comment # None

C9_IsHeaderText(text) ==
    \/ StartsWith(text, <<"#", "!">>)
    \/ Contains(Lower(text), <<"c", "o", "d", "i", "n", "g">>)
    \/ StartsWith(text, <<"#", " ", "v", "i", "m", ":">>)

C9_IsHeaderLine(line) == line.comment # None /\ C9_IsHeaderText(line.comment.value)

\* C9: the header pass removes from the leading trivia of the Module root
\* exactly the comments that start with #!, contain coding, or start with
\* "# vim:", one count each, and changes nothing else.
C9_HeaderPass ==
    (LastWas("HeaderCommentRemover") /\ Count(visited.header, C9_IsHeaderLine) > 0)
    => /\ ~raised
       /\ module.header = SelectSeq(visited.header, LAMBDA l : ~C9_IsHeaderLine(l))
       /\ module.body = visited.body
       /\ remover.removed_count = Count(visited.header, C9_IsHeaderLine)

\* the first statement of a body is a standalone string-literal expression
\* statement
C10_StartsWithString(smalls) ==
    /\ Len(smalls) = 1
    /\ smalls[1].type = "Expr"
    /\ smalls[1].value.type = "SimpleString"

C10_HasDocstring(suite) ==
    IF suite.type = "IndentedBlock"
    THEN /\ suite.body # <<>>
         /\ suite.body[1].type = "SimpleStatementLine"
         /\ C10_StartsWithString(suite.body[1].body)
    ELSE C10_StartsWithString(suite.body)

RECURSIVE C10_Docstrings(_)
\* the number of class and function bodies below `stmts` that start with a
\* string literal
C10_Docstrings(stmts) ==
    IF stmts = <<>> THEN 0
    ELSE LET s == Head(stmts) IN
         (IF s.type = "SimpleStatementLine" THEN 0
          ELSE (IF s.type \in {"FunctionDef", "ClassDef"} /\ C10_HasDocstring(s.body)
                THEN 1 ELSE 0)
               + (IF s.body.type = "IndentedBlock"
                  THEN C10_Docstrings(s.body.body) ELSE 0))
         + C10_Docstrings(Tail(stmts))

C10_ModuleDocstring(tree) ==
    /\ tree.body # <<>>
    /\ tree.body[1].type = "SimpleStatementLine"
    /\ C10_StartsWithString(tree.body[1].body)

\* C10: the docstring pass removes the first statement of the module and of
\* every class and function body exactly when it is a standalone string
\* literal, and nothing else; removed_count is the number of such bodies.
C10_DocstringPass ==
    LastWas("DocstringRemover")
    => /\ ~raised
       /\ remover.removed_count
            = C10_Docstrings(visited.body)
              + (IF C10_ModuleDocstring(visited) THEN 1 ELSE 0)
       /\ Len(AllSmalls(module)) = Len(AllSmalls(visited)) - remover.removed_count

\* a statement line that consists solely of one assert statement
C11_IsAssertLine(stmt) ==
    /\ stmt.type = "SimpleStatementLine"
    /\ Len(stmt.body) = 1
    /\ stmt.body[1].type = "Assert"

RECURSIVE C11_WithoutAsserts(_)
\* a compound statement with the assert lines of its block taken out
C11_CompoundWithout(stmt) ==
    IF stmt.type # "SimpleStatementLine" /\ stmt.body.type = "IndentedBlock"
    THEN [stmt EXCEPT !.body.body = C11_WithoutAsserts(stmt.body.body)]
    ELSE stmt

\* a body with its assert lines taken out, at every depth
C11_WithoutAsserts(stmts) ==
    IF stmts = <<>> THEN <<>>
    ELSE (IF C11_IsAssertLine(Head(stmts)) THEN <<>>
          ELSE <<C11_CompoundWithout(Head(stmts))>>)
         \o C11_WithoutAsserts(Tail(stmts))

RECURSIVE C11_AssertLines(_)
\* the number of assert lines of a body, at every depth
C11_AssertLines(stmts) ==
    IF stmts = <<>> THEN 0
    ELSE (IF C11_IsAssertLine(Head(stmts)) THEN 1
          ELSE IF Head(stmts).type # "SimpleStatementLine"
                  /\ Head(stmts).body.type = "IndentedBlock"
          THEN C11_AssertLines(Head(stmts).body.body)
          ELSE 0)
         + C11_AssertLines(Tail(stmts))

\* C11: the assert pass removes every statement line that consists solely
\* of one assert statement, at every depth, and no other statement;
\* removed_count is the number of lines removed, with or without a message.
C11_AssertPass ==
    LastWas("AssertRemover")
    => /\ ~raised
       /\ module.body = C11_WithoutAsserts(visited.body)
       /\ module.header = visited.header
       /\ remover.removed_count = C11_AssertLines(visited.body)

\* C11 witness: an assert line inside a block was removed
C11_Witness ==
    /\ LastWas("AssertRemover")
    /\ ~raised
    /\ remover.removed_count >= 1
    /\ C11_AssertLines(visited.body) > Count(visited.body, C11_IsAssertLine)

\* ------------------------------------------------------------------------
\* Properties of process_file (checked under Spec)
\* ------------------------------------------------------------------------

\* C5: process_file never leaves the file partially written: when parsing
\* fails, a pass raises or the write-back raises, the file on disk is what
\* it was before the call.
C5_FailureLeavesFileUntouched ==
    (pc = "done" /\ raised) => file = source_code

\* the total removed count over the five categories
C12_Total ==
    counts.prints_removed + counts.comments_removed + counts.docstrings_removed
    + counts.asserts_removed + counts.logs_removed

\* C12: process_file opens the file for writing if and only if the total
\* removed count is greater than 0 at the end of the pass chain; the file
\* changes at the write-back only, and when the total is 0 the file on disk
\* is the text that was read.
C12_WritesIffRemoved ==
    /\ []((pc = "done" /\ C12_Total = 0) => file = source_code)
    /\ [][/\ pc = "writeback" => (pc' = "write" <=> C12_Total > 0)
          /\ pc' = "write" => pc = "writeback"
          /\ file' # file => pc \in {"writeback", "write"}]_vars

\* C12 witness: a chain that removed something ended and the file holds the
\* text of the rewritten tree
C12_Witness ==
    /\ pc = "done"
    /\ ~raised
    /\ C12_Total > 0
    /\ file = Code(module)
    /\ file # source_code

\* the submodes asked for, in the order their passes are to run
C13_Requested(comment_options) ==
    SelectSeq(<<[flag |-> "inline", pass |-> InlineCommentRemover(TRUE)],
                [flag |-> "leading", pass |-> LeadingCommentRemover],
                [flag |-> "header", pass |-> HeaderCommentRemover],
                [flag |-> "default", pass |-> InlineCommentRemover(FALSE)]>>,
              LAMBDA e : e.flag \in comment_options)

\* the passes of the comments category in the order they are to run
C13_Passes(comment_options) ==
    IF "all" \in comment_options
    THEN <<InlineCommentRemover(TRUE), LeadingCommentRemover, HeaderCommentRemover>>
    ELSE [i \in 1..Len(C13_Requested(comment_options)) |->
            C13_Requested(comment_options)[i].pass]

RECURSIVE C13_Output(_, _)
\* the tree after each pass ran on the output of the one before
C13_Output(passes, tree) ==
    IF passes = <<>> THEN tree
    ELSE C13_Output(Tail(passes), Visit(Head(passes), tree).node)

RECURSIVE C13_Sum(_, _)
\* the sum of the counts of the passes
C13_Sum(passes, tree) ==
    IF passes = <<>> THEN 0
    ELSE Visit(Head(passes), tree).removed_count
         + C13_Sum(Tail(passes), Visit(Head(passes), tree).node)

\* C13: asked for "all", the comments block runs inline-all, then leading,
\* then header, each on the output of the one before, and reports the sum
\* of their three counts.
C13_CommentPasses ==
    [][(pc = "comments" /\ options.remove_comments /\ "all" \in options.comment_options)
       => /\ ~raised'
          /\ module' = C13_Output(C13_Passes(options.comment_options), module)
          /\ counts'.comments_removed
               = C13_Sum(C13_Passes(options.comment_options), module)]_vars

\* C14: a count greater than 0 is returned only for a file that was
\* rewritten with the output of the whole chain; when a pass or the
\* write-back raised, all five returned counts are 0.
C14_CountsAgreeWithFile ==
    pc = "done"
    => /\ C12_Total > 0 => (~raised /\ file = Code(module))
       /\ raised => counts = ZeroCounts

====
